---- MODULE Spec2Model ----
(***************************************************************************)
(* A model of mautrix/client/api/types/util/serializable.py: the generic   *)
(* attrs <-> JSON codec (_dict_to_attrs, _try_deserialize, _deserialize,   *)
(* _safe_default, _attrs_to_dict, _serialize) and SerializableEnum.        *)
(*                                                                         *)
(* Python values (JSON documents and typed values alike) are records of    *)
(* one shape, [t, i, s, l, m, u]: t is the Python type, i an int's value,  *)
(* s a str's value / an enum member's value / an attrs instance's class,   *)
(* l the items of a list or set, m the items of a dict or the attributes   *)
(* of an attrs instance, u the unrecognized_ dict of an attrs instance     *)
(* (the empty map stands for the class attribute unrecognized_ = None).    *)
(***************************************************************************)
EXTENDS Integers, Sequences, FiniteSets, TLC

\* Document integers are 1..MaxInt.
MaxInt == 2
\* How many decodes of a null field value one run of the aliasing model makes.
MaxDecodes == 2
\* How many list.append calls one run of the aliasing model makes.
MaxAppends == 2
\* How deeply the lists of a mutable default nest in the aliasing model.
MaxDepth == 3

VARIABLES
  schema,    \* the attrs class the run is about
  doc,       \* the JSON document handed to deserialize (None when the record is constructed)
  obj,       \* what deserialize / the constructor returned: a result, see Ok and Raise
  assigned,  \* the attribute assignment made after the first stage, if any
  out,       \* what serialize returned
  obj2,      \* what deserialize returned for out
  pc,        \* the position of the run
  origin,    \* how obj was made: "deserialize" or "construct"
  fieldDefault, \* aliasing model: the reference held by field.default
  heap,      \* aliasing model: object id -> list object (a sequence of references)
  results,   \* aliasing model: the ids _deserialize returned, in call order
  appends    \* aliasing model: number of list.append calls made

vars == <<schema, doc, obj, assigned, out, obj2, pc, origin, fieldDefault, heap, results, appends>>
codecVars == <<schema, doc, obj, assigned, out, obj2, pc, origin>>
heapVars == <<fieldDefault, heap, results, appends>>

----------------------------------------------------------------------------
(* Python values *)

EmptyMap == <<>>
Mk(t, i, s, l, m, u) == [t |-> t, i |-> i, s |-> s, l |-> l, m |-> m, u |-> u]
PyNone == Mk("None", 0, "", <<>>, EmptyMap, EmptyMap)
\* attr.NOTHING, the default of an attribute declared without one
NOTHING == Mk("NOTHING", 0, "", <<>>, EmptyMap, EmptyMap)
PyInt(i) == Mk("int", i, "", <<>>, EmptyMap, EmptyMap)
PyStr(s) == Mk("str", 0, s, <<>>, EmptyMap, EmptyMap)
PyList(l) == Mk("list", 0, "", l, EmptyMap, EmptyMap)
PySet(l) == Mk("set", 0, "", l, EmptyMap, EmptyMap)
PyDict(m) == Mk("dict", 0, "", <<>>, m, EmptyMap)
\* the wrappers of mautrix.client.api.types.util.obj
Lst(l) == Mk("Lst", 0, "", l, EmptyMap, EmptyMap)
Obj(m) == Mk("Obj", 0, "", <<>>, m, EmptyMap)
\* a member of the SerializableEnum subclass Color, by its value
Member(s) == Mk("Color", 0, s, <<>>, EmptyMap, EmptyMap)
\* an instance of attrs class c with attributes m and unrecognized_ u
Attrs(c, m, u) == Mk("attrs", 0, c, <<>>, m, u)

\* what a call returned, or the exception it raised
Ok(v) == [ok |-> TRUE, val |-> v, exc |-> "", msg |-> "", key |-> ""]
Raise(exc, msg, key) == [ok |-> FALSE, val |-> PyNone, exc |-> exc, msg |-> msg, key |-> key]

\* m1.update(m2)
Update(m1, m2) ==
  [k \in (DOMAIN m1) \cup (DOMAIN m2) |-> IF k \in DOMAIN m2 THEN m2[k] ELSE m1[k]]

\* Python truthiness, as `data or {}` uses it
Falsy(v) ==
  \/ v.t = "None"
  \/ v.t = "int" /\ v.i = 0
  \/ v.t = "str" /\ v.s = ""
  \/ v.t \in {"list", "set", "Lst"} /\ Len(v.l) = 0
  \/ v.t \in {"dict", "Obj"} /\ DOMAIN v.m = {}

\* Python ==. attrs generates __eq__ over the declared attributes of two
\* instances of the same class: unrecognized_ is no attribute and is not compared.
RECURSIVE PyEq(_, _)
PyEq(a, b) ==
  /\ a.t = b.t
  /\ a.i = b.i
  /\ a.s = b.s
  /\ Len(a.l) = Len(b.l)
  /\ \A j \in 1..Len(a.l) : PyEq(a.l[j], b.l[j])
  /\ DOMAIN a.m = DOMAIN b.m
  /\ \A k \in DOMAIN a.m : PyEq(a.m[k], b.m[k])
  /\ (a.t # "attrs" => a.u = b.u)

----------------------------------------------------------------------------
(* Types and schemas: the inputs of the codec *)

\* the values of the members of Color
ColorValues == {"red", "blue"}

\* the shape of a declared type, as _deserialize's dispatch sees it
TypeKind(t) ==
  CASE t \in {"Inner", "Flat", "Nest", "Req", "Opt", "Coll"} -> "attrs"
    [] t = "Any" -> "Any"
    [] t = "Optional[int]" -> "Union"
    [] t = "Color" -> "Serializable"
    [] t = "List[int]" -> "List"
    [] t = "Set[int]" -> "Set"
    [] t = "Dict[str, int]" -> "Dict"
    [] OTHER -> "plain"

\* cls.__args__
TypeArgs(t) ==
  CASE t = "Optional[int]" -> <<"int", "NoneType">>
    [] t = "List[int]" -> <<"int">>
    [] t = "Set[int]" -> <<"int">>
    [] t = "Dict[str, int]" -> <<"str", "int">>
    [] OTHER -> <<>>

\* an attr.ib: its name, metadata["json"] (the name when not given), type,
\* default, and the metadata flags with the defaults the code reads them with
Fld(name, json, type, default, flatten, ignore_errors, omitempty, omitdefault) ==
  [name |-> name, json |-> json, type |-> type, default |-> default,
   flatten |-> flatten, ignore_errors |-> ignore_errors,
   omitempty |-> omitempty, omitdefault |-> omitdefault]
Plain(name, type, default) == Fld(name, name, type, default, FALSE, FALSE, TRUE, FALSE)

\* attr.fields(attrs_type), in declared order
AttrFields(c) ==
  CASE c = "Inner" -> << Plain("x", "int", PyNone), Plain("y", "int", PyNone) >>
    [] c = "Flat" -> << Plain("n", "int", PyNone),
                        Fld("F", "F", "Inner", PyNone, TRUE, FALSE, TRUE, FALSE) >>
    [] c = "Nest" -> << Plain("g", "Inner", PyNone),
                        Plain("w", "Optional[int]", PyNone) >>
    [] c = "Req" -> << Fld("a", "k", "int", NOTHING, FALSE, FALSE, TRUE, FALSE),
                       Plain("b", "int", NOTHING),
                       Plain("c", "int", PyInt(1)) >>
    [] c = "Opt" -> << Fld("e", "e", "Color", Member("red"), FALSE, TRUE, TRUE, FALSE),
                       Fld("d", "d", "int", PyInt(1), FALSE, FALSE, FALSE, FALSE),
                       Fld("o", "o", "int", PyInt(1), FALSE, FALSE, TRUE, TRUE),
                       Fld("q", "q", "int", PyInt(1), FALSE, FALSE, FALSE, TRUE),
                       Fld("h", "", "Any", PyNone, FALSE, FALSE, TRUE, FALSE) >>
    [] c = "Coll" -> << Plain("l", "List[int]", PyNone),
                        Plain("s", "Set[int]", PyNone),
                        Plain("m", "Dict[str, int]", PyNone) >>
    [] OTHER -> << >>

Classes == {"Flat", "Nest", "Req", "Opt", "Coll"}

\* the order in which a document's keys are iterated
KeyOrder == << "", "F", "a", "ab", "b", "c", "d", "e", "g", "k", "l", "m", "n",
               "o", "q", "s", "u", "w", "x", "y" >>


----------------------------------------------------------------------------
(* Decoding *)

\* _fields(attrs_type, only_if_flatten): only_if_flatten is "None", "True" or "False"
Fields(attrs_type, only_if_flatten) ==
  SelectSeq(AttrFields(attrs_type),
            LAMBDA field : only_if_flatten = "None"
                             \/ (field.flatten <=> only_if_flatten = "True"))

immutable == {"int", "str", "float", "bool", "None"}

\* copy.copy(val): a new object with val's items; as a value it equals val
\* (which objects the copy shares with val is the subject of the aliasing model)
CopyCopy(val) == val

SafeDefault(val) ==
  IF val.t \in immutable THEN val ELSE CopyCopy(val)

\* SerializableEnum.deserialize for Color: cls(raw), ValueError -> SerializerError()
EnumDeserialize(raw) ==
  IF raw.t = "str" /\ raw.s \in ColorValues
  THEN Ok(Member(raw.s))
  ELSE Raise("SerializerError", "", "")

\* getattr(cls, "__args__", default=...): the builtin takes no keyword arguments
GetattrArgs(cls) == Raise("TypeError", "getattr() takes no keyword arguments", "")

RECURSIVE DictToAttrs(_, _, _, _)
RECURSIVE TryDeserialize(_, _, _, _)
RECURSIVE Deserialize(_, _, _)

DictToAttrs(attrs_type, data0, default, default_if_empty) ==
  LET data == IF Falsy(data0) THEN PyDict(EmptyMap) ELSE data0
      flat == Fields(attrs_type, "True")
      flatRes == [j \in 1..Len(flat) |->
                    TryDeserialize(flat[j].type, data, flat[j].default,
                                   flat[j].ignore_errors)]
      flatErr == IF \E j \in 1..Len(flat) : ~flatRes[j].ok
                 THEN CHOOSE j \in 1..Len(flat) :
                        ~flatRes[j].ok /\ \A h \in 1..(j - 1) : flatRes[h].ok
                 ELSE 0
      fields == Fields(attrs_type, "False")
      Known(key) == \E j \in 1..Len(fields) : fields[j].json = key
      \* dict(...) keeps the last field of a wire key
      FieldOf(key) == fields[CHOOSE j \in 1..Len(fields) :
                               /\ fields[j].json = key
                               /\ \A h \in (j + 1)..Len(fields) : fields[h].json # key]
      keys == SelectSeq(KeyOrder, LAMBDA key : key \in DOMAIN data.m)
      known == SelectSeq(keys, Known)
      keyRes == [j \in 1..Len(known) |->
                   TryDeserialize(FieldOf(known[j]).type, data.m[known[j]],
                                  FieldOf(known[j]).default,
                                  FieldOf(known[j]).ignore_errors)]
      keyErr == IF \E j \in 1..Len(known) : ~keyRes[j].ok
                THEN CHOOSE j \in 1..Len(known) :
                       ~keyRes[j].ok /\ \A h \in 1..(j - 1) : keyRes[h].ok
                ELSE 0
      unrecognized == [key \in {k \in DOMAIN data.m : ~Known(k)} |-> data.m[key]]
      flatNames == {flat[j].name : j \in 1..Len(flat)}
      keyNames == {FieldOf(known[j]).name : j \in 1..Len(known)}
      new_items ==
        [name \in flatNames \cup keyNames |->
           IF name \in keyNames
           THEN keyRes[CHOOSE j \in 1..Len(known) : FieldOf(known[j]).name = name].val
           ELSE flatRes[CHOOSE j \in 1..Len(flat) : flat[j].name = name].val]
      all == Fields(attrs_type, "None")
      \* attrs_type(**new_items) raises TypeError when an attribute without a
      \* default gets no argument
      typeError == \E j \in 1..Len(all) :
                     all[j].default = NOTHING /\ all[j].name \notin DOMAIN new_items
      \* the first field, in declared order, whose wire key is no key of new_items
      missing == IF \E j \in 1..Len(all) : all[j].json \notin DOMAIN new_items
                 THEN CHOOSE j \in 1..Len(all) :
                        /\ all[j].json \notin DOMAIN new_items
                        /\ \A h \in 1..(j - 1) : all[h].json \in DOMAIN new_items
                 ELSE 0
      made == Attrs(attrs_type,
                    [name \in {all[j].name : j \in 1..Len(all)} |->
                       IF name \in DOMAIN new_items
                       THEN new_items[name]
                       ELSE all[CHOOSE j \in 1..Len(all) : all[j].name = name].default],
                    unrecognized)
  IN IF flatErr # 0 THEN flatRes[flatErr]
     ELSE IF data.t # "dict"
     THEN Raise("AttributeError", "object has no attribute 'items'", "")
     ELSE IF keyErr # 0 THEN keyRes[keyErr]
     ELSE IF DOMAIN new_items = {} /\ default_if_empty THEN Ok(SafeDefault(default))
     ELSE IF typeError
     THEN IF missing # 0
          THEN Raise("SerializerError", "Missing value for required key", all[missing].name)
          ELSE Raise("SerializerError", "Unknown serialization error", "")
     ELSE Ok(made)

TryDeserialize(cls, value, default, ignore_errors) ==
  LET r == Deserialize(cls, value, default)
  IN IF r.ok THEN r
     ELSE IF r.exc = "SerializerError"
     THEN IF ignore_errors THEN Ok(PyNone) ELSE r
     ELSE IF r.exc \in {"TypeError", "ValueError", "KeyError"}
     THEN IF ignore_errors THEN Ok(PyNone)
          ELSE Raise("SerializerError", "Unknown serialization error", "")
     ELSE r

Deserialize(cls, value, default) ==
  LET kind == TypeKind(cls)
  IN IF value.t = "None" THEN Ok(SafeDefault(default))
     ELSE IF kind = "attrs" THEN DictToAttrs(cls, value, default, TRUE)
     ELSE IF kind = "Any" THEN Ok(value)
     ELSE IF kind = "Union" /\ Len(TypeArgs(cls)) = 2 /\ TypeArgs(cls)[2] = "NoneType"
     THEN Deserialize(TypeArgs(cls)[1], value, default)
     ELSE IF kind = "Serializable" THEN EnumDeserialize(value)
     ELSE IF kind \in {"List", "Set", "Dict"} THEN GetattrArgs(cls)
     ELSE IF value.t = "list" THEN Ok(Lst(value.l))
     ELSE IF value.t = "dict" THEN Ok(Obj(value.m))
     ELSE Ok(value)

\* SerializableAttrs.deserialize
ClsDeserialize(c, data) == DictToAttrs(c, data, PyNone, FALSE)

----------------------------------------------------------------------------
(* Encoding *)

RECURSIVE AttrsToDict(_)
RECURSIVE Serialize(_)
RECURSIVE FieldLoop(_, _, _)

\* FieldLoop with the flatten branch lost: the encoded value of a flatten field
\* is stored under the field's own key
RECURSIVE FieldLoopNested(_, _, _)
FieldLoopNested(data, j, new_dict) ==
  LET all == Fields(data.s, "None")
      field == all[j]
      attr_val == data.m[field.name]
      field_val == IF attr_val.t = "None" THEN field.default ELSE attr_val
      serialized == Serialize(field_val)
  IN IF j > Len(all) THEN new_dict
     ELSE IF field.json = "" THEN FieldLoopNested(data, j + 1, new_dict)
     ELSE IF attr_val.t = "None" /\ field.omitempty
     THEN FieldLoopNested(data, j + 1, new_dict)
     ELSE IF field.omitdefault /\ PyEq(field_val, field.default)
     THEN FieldLoopNested(data, j + 1, new_dict)
     ELSE FieldLoopNested(data, j + 1, Update(new_dict, [k \in {field.json} |-> serialized]))

\* FieldLoop with the omitdefault test lost: a value equal to the default is
\* emitted like any other
RECURSIVE FieldLoopNoOmitDefault(_, _, _)
FieldLoopNoOmitDefault(data, j, new_dict) ==
  LET all == Fields(data.s, "None")
      field == all[j]
      attr_val == data.m[field.name]
      field_val == IF attr_val.t = "None" THEN field.default ELSE attr_val
      serialized == Serialize(field_val)
  IN IF j > Len(all) THEN new_dict
     ELSE IF field.json = "" THEN FieldLoopNoOmitDefault(data, j + 1, new_dict)
     ELSE IF attr_val.t = "None" /\ field.omitempty
     THEN FieldLoopNoOmitDefault(data, j + 1, new_dict)
     ELSE IF field.flatten /\ serialized.t = "dict"
     THEN FieldLoopNoOmitDefault(data, j + 1, Update(new_dict, serialized.m))
     ELSE FieldLoopNoOmitDefault(data, j + 1,
                                 Update(new_dict, [k \in {field.json} |-> serialized]))

\* the for loop of _attrs_to_dict from field j on, new_dict being the dict so far
FieldLoop(data, j, new_dict) ==
  LET all == Fields(data.s, "None")
      field == all[j]
      attr_val == data.m[field.name]
      field_val == IF attr_val.t = "None" THEN field.default ELSE attr_val
      serialized == Serialize(field_val)
  IN IF j > Len(all) THEN new_dict
     ELSE IF field.json = "" THEN FieldLoop(data, j + 1, new_dict)
     ELSE IF attr_val.t = "None" /\ field.omitempty THEN FieldLoop(data, j + 1, new_dict)
     ELSE IF field.omitdefault /\ PyEq(field_val, field.default)
     THEN FieldLoop(data, j + 1, new_dict)
     ELSE IF field.flatten /\ serialized.t = "dict"
     THEN FieldLoop(data, j + 1, Update(new_dict, serialized.m))
     ELSE FieldLoop(data, j + 1, Update(new_dict, [k \in {field.json} |-> serialized]))

\* the dict _attrs_to_dict returns: the field loop, then update(unrecognized_)
AttrsToDict(data) == Update(FieldLoop(data, 1, EmptyMap), data.u)

Serialize(val) ==
  IF val.t = "attrs" THEN PyDict(AttrsToDict(val))
  ELSE IF val.t \in {"list", "set", "Lst"}
  THEN PyList([j \in 1..Len(val.l) |-> Serialize(val.l[j])])
  ELSE IF val.t = "dict" THEN PyDict([k \in DOMAIN val.m |-> Serialize(val.m[k])])
  ELSE IF val.t = "Color" THEN PyStr(val.s)
  ELSE val

\* SerializableAttrs.serialize
ObjSerialize(data) == PyDict(AttrsToDict(data))


----------------------------------------------------------------------------
(* The inputs the runs draw from *)

Ints == {PyInt(i) : i \in 1..MaxInt}
Scalars == {PyNone} \cup Ints

\* all maps from a subset of the keys of cand to candidate values of each key
MapsOver(cand) ==
  UNION {[ks -> UNION {cand[k] : k \in ks}] : ks \in SUBSET (DOMAIN cand)}

PickMaps(cand) == {m \in MapsOver(cand) : \A k \in DOMAIN m : m[k] \in cand[k]}

\* documents for an Inner nested under a key
InnerDocs ==
  {PyDict(m) : m \in PickMaps([k \in {"x", "u"} |-> IF k = "x" THEN Scalars ELSE Ints])}

\* the candidate values of each key of a document for class c
KeyVals(c) ==
  CASE c = "Flat" -> [k \in {"x", "y", "n", "u"} |-> Scalars]
    [] c = "Nest" -> [k \in {"g", "w", "u"} |->
                        IF k = "g"
                        THEN InnerDocs \cup {PyNone, PyInt(1), PyList(<<PyInt(1)>>)}
                        ELSE IF k = "w" THEN Scalars ELSE Ints]
    [] c = "Req" -> [k \in {"k", "a", "b", "c"} |-> Scalars]
    [] c = "Opt" -> [k \in {"e", "d", "o", "q", ""} |->
                       IF k = "e"
                       THEN {PyNone, PyStr("red"), PyStr("blue"), PyStr("zz"), PyInt(1)}
                       ELSE IF k = "" THEN {PyInt(1)} ELSE Scalars]
    [] c = "Coll" -> [k \in {"l", "s", "m"} |->
                        IF k = "l"
                        THEN {PyNone, PyList(<<>>)} \cup {PyList(<<i>>) : i \in Ints}
                        ELSE IF k = "s" THEN {PyNone, PyList(<<PyInt(1)>>)}
                        ELSE {PyNone, PyDict(EmptyMap)}
                               \cup {PyDict([j \in {key} |-> i]) :
                                       key \in {"a", "ab"}, i \in Ints}]
    [] OTHER -> EmptyMap

\* the documents handed to cls.deserialize: maps, and values that are no map
Docs(c) ==
  {PyDict(m) : m \in PickMaps(KeyVals(c))}
    \cup {PyNone, PyInt(1), PyStr("zz"), PyList(<<>>), PyList(<<PyInt(1)>>)}

\* the values an attribute of declared type t is given by a caller
TypedVals(t) ==
  CASE t = "int" -> Scalars
    [] t = "Any" -> Scalars
    [] t = "Optional[int]" -> Scalars
    [] t = "Color" -> {PyNone} \cup {Member(v) : v \in ColorValues}
    [] t = "Inner" -> {PyNone} \cup {Attrs("Inner", m, EmptyMap) :
                                       m \in [{"x", "y"} -> Scalars]}
    [] t = "List[int]" -> {PyNone, PyList(<<>>)} \cup {PyList(<<i>>) : i \in Ints}
    [] t = "Set[int]" -> {PyNone} \cup {PySet(<<i>>) : i \in Ints}
    [] t = "Dict[str, int]" -> {PyNone} \cup {PyDict([j \in {"a"} |-> i]) : i \in Ints}
    [] OTHER -> {PyNone}

FieldNames(c) == {AttrFields(c)[j].name : j \in 1..Len(AttrFields(c))}
FieldNamed(c, name) ==
  AttrFields(c)[CHOOSE j \in 1..Len(AttrFields(c)) : AttrFields(c)[j].name = name]

\* the instances of class c a caller constructs through its declared fields
Constructible(c) ==
  {Attrs(c, m, EmptyMap) :
     m \in {f \in [FieldNames(c) -> UNION {TypedVals(FieldNamed(c, n).type) : n \in FieldNames(c)}] :
              \A n \in FieldNames(c) : f[n] \in TypedVals(FieldNamed(c, n).type)}}

NoAssignment == [path |-> <<>>, val |-> PyNone]

----------------------------------------------------------------------------
(* The codec runs: deserialize or construct, assign, serialize, deserialize *)

Init ==
  /\ schema \in Classes
  /\ doc = PyNone
  /\ obj = Ok(PyNone)
  /\ assigned = NoAssignment
  /\ out = PyNone
  /\ obj2 = Ok(PyNone)
  /\ pc = "init"
  /\ origin = "none"
  /\ fieldDefault = [obj |-> FALSE, v |-> 0]
  /\ heap = <<>>
  /\ results = <<>>
  /\ appends = 0

\* obj = schema.deserialize(d)
DoDeserialize ==
  /\ pc = "init"
  /\ \E d \in Docs(schema) :
       /\ doc' = d
       /\ obj' = ClsDeserialize(schema, d)
  /\ pc' = "made"
  /\ origin' = "deserialize"
  /\ UNCHANGED <<schema, assigned, out, obj2>>
  /\ UNCHANGED heapVars

\* obj = schema(**kwargs)
DoConstruct ==
  /\ pc = "init"
  /\ \E v \in Constructible(schema) : obj' = Ok(v)
  /\ pc' = "made"
  /\ origin' = "construct"
  /\ UNCHANGED <<schema, doc, assigned, out, obj2>>
  /\ UNCHANGED heapVars

\* obj.name = v, or obj.name.sub = v for an attribute holding an attrs instance
DoAssign ==
  /\ pc = "made"
  /\ origin = "deserialize"
  /\ obj.ok
  /\ obj.val.t = "attrs"
  /\ \E name \in FieldNames(schema) :
       \/ \E v \in TypedVals(FieldNamed(schema, name).type) \ {PyNone} :
            /\ v # obj.val.m[name]
            /\ obj' = [obj EXCEPT !.val.m[name] = v]
            /\ assigned' = [path |-> <<name>>, val |-> v]
       \/ /\ obj.val.m[name].t = "attrs"
          /\ \E sub \in FieldNames(obj.val.m[name].s) :
               \E v \in TypedVals(FieldNamed(obj.val.m[name].s, sub).type) \ {PyNone} :
                 /\ v # obj.val.m[name].m[sub]
                 /\ obj' = [obj EXCEPT !.val.m[name].m[sub] = v]
                 /\ assigned' = [path |-> <<name, sub>>, val |-> v]
  /\ pc' = "assigned"
  /\ UNCHANGED <<schema, doc, out, obj2, origin>>
  /\ UNCHANGED heapVars

\* out = obj.serialize()
DoSerialize ==
  /\ pc \in {"made", "assigned"}
  /\ obj.ok
  /\ obj.val.t = "attrs"
  /\ out' = ObjSerialize(obj.val)
  /\ pc' = "serialized"
  /\ UNCHANGED <<schema, doc, obj, assigned, obj2, origin>>
  /\ UNCHANGED heapVars

\* obj2 = schema.deserialize(out)
DoReDeserialize ==
  /\ pc = "serialized"
  /\ obj2' = ClsDeserialize(schema, out)
  /\ pc' = "done"
  /\ UNCHANGED <<schema, doc, obj, assigned, out, origin>>
  /\ UNCHANGED heapVars

Next ==
  \/ DoDeserialize
  \/ DoConstruct
  \/ DoAssign
  \/ DoSerialize
  \/ DoReDeserialize

Spec == Init /\ [][Next]_vars


----------------------------------------------------------------------------
(* The aliasing model: which objects the results of _safe_default share.    *)
(* A reference is an immutable int or the id of a list object; heap maps    *)
(* each id to the list's items, themselves references.                      *)

IntRef(i) == [obj |-> FALSE, v |-> i]
ObjRef(id) == [obj |-> TRUE, v |-> id]

\* the heap of a default that is a list nested d deep around the int 1
NestedList(d) ==
  [j \in 1..d |-> IF j < d THEN <<ObjRef(j + 1)>> ELSE <<IntRef(1)>>]

\* _safe_default(val) on the heap h: the reference returned and the heap after.
\* copy.copy makes one new list holding the same item references.
SafeDefaultRef(h, val) ==
  IF ~val.obj
  THEN [ref |-> val, heap |-> h]
  ELSE [ref |-> ObjRef(Len(h) + 1), heap |-> Append(h, h[val.v])]

\* the ids of the list objects reachable from a reference
RECURSIVE Reach(_, _)
Reach(h, ref) ==
  IF ~ref.obj THEN {}
  ELSE {ref.v} \cup UNION {Reach(h, h[ref.v][k]) : k \in 1..Len(h[ref.v])}

InitAlias ==
  /\ schema = "Flat"
  /\ doc = PyNone
  /\ obj = Ok(PyNone)
  /\ assigned = NoAssignment
  /\ out = PyNone
  /\ obj2 = Ok(PyNone)
  /\ pc = "alias"
  /\ origin = "none"
  /\ \E d \in 0..MaxDepth :
       /\ heap = NestedList(d)
       /\ fieldDefault = IF d = 0 THEN IntRef(1) ELSE ObjRef(1)
  /\ results = <<>>
  /\ appends = 0

\* _deserialize(cls, None, field.default): value is None, so _safe_default(default)
DoDeserializeNull ==
  /\ Len(results) < MaxDecodes
  /\ LET r == SafeDefaultRef(heap, fieldDefault)
     IN /\ results' = Append(results, r.ref)
        /\ heap' = r.heap
  /\ UNCHANGED <<fieldDefault, appends>>
  /\ UNCHANGED codecVars

\* the holder of a decoded value appends to a list that is part of it
DoAppend ==
  /\ appends < MaxAppends
  /\ \E j \in 1..Len(results) :
       \E id \in Reach(heap, results[j]) :
         \E i \in 1..MaxInt :
           heap' = [heap EXCEPT ![id] = Append(@, IntRef(i))]
  /\ appends' = appends + 1
  /\ UNCHANGED <<fieldDefault, results>>
  /\ UNCHANGED codecVars

NextAlias ==
  \/ DoDeserializeNull
  \/ DoAppend

SpecAlias == InitAlias /\ [][NextAlias]_vars


----------------------------------------------------------------------------
(* The claims *)

Decoded == pc = "made" /\ origin = "deserialize"
IsMap(v) == v.t = "dict"
AllFields(c) == {AttrFields(c)[j] : j \in 1..Len(AttrFields(c))}
\* the wire keys a class declares for fields read from their own key
OwnKeys(c) == {f.json : f \in {g \in AllFields(c) : ~g.flatten}}
\* the wire keys the sub-fields of the flatten fields of a class are inlined under
InlineKeys(c) == UNION {OwnKeys(f.type) : f \in {g \in AllFields(c) : g.flatten}}

\* C1: deserialize(serialize(v)) equals v for every record v constructed through
\* the declared fields of its class.
C1_RoundTrip ==
  (pc = "done" /\ origin = "construct") => (obj2.ok /\ PyEq(obj2.val, obj.val))

\* C2: every key of a document that matches no declared field comes back
\* unchanged from serialize(deserialize(d)), at the top level and in a record nested
\* under a field, and a second decode yields the same unrecognized bucket.
C2_UnrecognizedFidelity ==
  (pc = "done" /\ origin = "deserialize" /\ assigned = NoAssignment /\ obj.ok /\ IsMap(doc)) =>
    /\ \A k \in DOMAIN doc.m :
         k \notin OwnKeys(schema) \cup InlineKeys(schema) =>
           k \in DOMAIN out.m /\ out.m[k] = doc.m[k]
    /\ \A f \in AllFields(schema) :
         (/\ ~f.flatten
          /\ TypeKind(f.type) = "attrs"
          /\ f.json \in DOMAIN doc.m
          /\ IsMap(doc.m[f.json])) =>
           \A k \in DOMAIN doc.m[f.json].m :
             k \notin OwnKeys(f.type) =>
               /\ f.json \in DOMAIN out.m
               /\ IsMap(out.m[f.json])
               /\ k \in DOMAIN out.m[f.json].m
               /\ out.m[f.json].m[k] = doc.m[f.json].m[k]
    /\ obj2.ok
    /\ obj2.val.u = obj.val.u

\* C3: decoding {x: a, y: b} against a class whose flatten field F holds a record
\* {x, y} sets F.x = a and F.y = b, and encoding the result gives exactly
\* {x: a, y: b}: the sub-keys inlined, no key F.
C3_FlattenInline ==
  (/\ origin = "deserialize"
   /\ assigned = NoAssignment
   /\ pc \in {"made", "serialized", "done"}
   /\ IsMap(doc)
   /\ DOMAIN doc.m = {"x", "y"}
   /\ \E f \in AllFields(schema) : f.flatten /\ f.type = "Inner") =>
    \A f \in {g \in AllFields(schema) : g.flatten /\ g.type = "Inner"} :
      /\ obj.ok
      /\ obj.val.m[f.name].t = "attrs"
      /\ obj.val.m[f.name].m["x"] = doc.m["x"]
      /\ obj.val.m[f.name].m["y"] = doc.m["y"]
      /\ pc \in {"serialized", "done"} =>
           /\ f.json \notin DOMAIN out.m
           /\ out = PyDict(doc.m)

C3_Witness ==
  /\ pc = "serialized"
  /\ origin = "deserialize"
  /\ schema = "Flat"
  /\ doc = PyDict([k \in {"x", "y"} |-> IF k = "x" THEN PyInt(1) ELSE PyInt(2)])
  /\ obj.ok
  /\ obj.val.m["F"].m["x"] = PyInt(1)
  /\ obj.val.m["F"].m["y"] = PyInt(2)
  /\ DOMAIN out.m = {"x", "y"}

\* the fields of class c that have no default and get no value from document d,
\* in declared order
RequiredMissing(c, d) ==
  SelectSeq(AttrFields(c),
            LAMBDA f : f.default = NOTHING /\ ~f.flatten /\ f.json \notin DOMAIN d.m)

\* C4: a decode that leaves a required field without a value fails with a
\* SerializerError naming, by its wire key, the first required field the document
\* does not supply.
C4_MissingNamesFirstRequired ==
  (Decoded /\ IsMap(doc) /\ Len(RequiredMissing(schema, doc)) > 0) =>
    /\ ~obj.ok
    /\ obj.exc = "SerializerError"
    /\ obj.key = RequiredMissing(schema, doc)[1].json

\* a document value that is no value of the enum Color
NoColor(v) == v.t # "None" /\ ~(v.t = "str" /\ v.s \in ColorValues)

\* C5: when the document value of an ignore_errors field cannot be decoded against
\* the field's type, the decode succeeds and the field holds its declared default.
C5_IgnoreErrorsDefault ==
  (Decoded /\ IsMap(doc)) =>
    \A f \in AllFields(schema) :
      (/\ f.ignore_errors
       /\ f.type = "Color"
       /\ f.json \in DOMAIN doc.m
       /\ NoColor(doc.m[f.json])) =>
        /\ obj.ok
        /\ obj.val.m[f.name] = f.default

\* C6: a decode that fails, whatever the document, fails with a SerializerError.
C6_OnlySerializerError ==
  (Decoded /\ ~obj.ok) => obj.exc = "SerializerError"

\* C7: no two values decoded from null, and no decoded value and the default,
\* share a mutable part at any depth.
C7_NoSharedMutablePart ==
  /\ \A j \in 1..Len(results) :
       Reach(heap, results[j]) \cap Reach(heap, fieldDefault) = {}
  /\ \A j, k \in 1..Len(results) :
       j # k => Reach(heap, results[j]) \cap Reach(heap, results[k]) = {}

\* what the claim says of field f of the encoded record: the value emitted, and
\* whether the key is left out
Substituted(f) == IF obj.val.m[f.name].t = "None" THEN f.default ELSE obj.val.m[f.name]
LeftOut(f) ==
  \/ obj.val.m[f.name].t = "None" /\ f.omitempty
  \/ f.omitdefault /\ PyEq(Substituted(f), f.default)
AsClaimed(f) ==
  IF LeftOut(f)
  THEN f.json \notin DOMAIN out.m
  ELSE f.json \in DOMAIN out.m /\ out.m[f.json] = Serialize(Substituted(f))

\* C8 as stated: for each declared field the key is absent for None with
\* omitempty, absent for a value equal to the default with omitdefault, and present
\* with the encoded (default-substituted) value in every other case.
C8_EveryField ==
  pc = "serialized" => \A f \in AllFields(schema) : AsClaimed(f)

\* the keys that encode writes from elsewhere than from field f's own key: the
\* own keys of other fields, the maps of flatten fields, inlined, and the
\* unrecognized bucket
Inlined(f) ==
  f.flatten /\ ~LeftOut(f) /\ Serialize(Substituted(f)).t = "dict"
WrittenElsewhere(f) ==
  (DOMAIN obj.val.u)
    \cup {g.json : g \in {h \in AllFields(schema) :
                            h # f /\ h.json # "" /\ ~LeftOut(h) /\ ~Inlined(h)}}
    \cup UNION {DOMAIN Serialize(Substituted(g)).m :
                  g \in {h \in AllFields(schema) : h # f /\ Inlined(h)}}

\* C8 amended: the same, for each declared field that has a non-empty wire key, is
\* not a flatten field whose encoded value is a map, and whose wire key is written
\* neither by another field (its own key or its inlined flatten map) nor by the
\* unrecognized bucket; a field whose wire key is empty is not emitted.
C8_Omission ==
  pc = "serialized" =>
    \A f \in AllFields(schema) :
      f.json \notin WrittenElsewhere(f) =>
        IF f.json = "" THEN "" \notin DOMAIN out.m
        ELSE ~Inlined(f) => AsClaimed(f)

C8_Witness ==
  /\ pc = "serialized"
  /\ schema = "Opt"
  /\ obj.val.m["e"] = PyNone
  /\ "e" \notin DOMAIN out.m
  /\ obj.val.m["d"] = PyNone
  /\ out.m["d"] = PyInt(1)
  /\ obj.val.m["o"] = PyInt(1)
  /\ "o" \notin DOMAIN out.m
  /\ obj.val.m["q"] = PyNone
  /\ "q" \notin DOMAIN out.m

\* the field an assigned attribute path ends in
Target(path) ==
  IF Len(path) = 1 THEN FieldNamed(schema, path[1])
  ELSE FieldNamed(FieldNamed(schema, path[1]).type, path[2])
\* the assignment sets a field read from its own key, or a sub-field of a flatten
\* field: both are emitted into the record's own map
EmittedTopLevel(path) ==
  FieldNamed(schema, path[1]).flatten <=> Len(path) = 2

\* C9: decode puts no key consumed by a flatten field (and no declared wire key)
\* into the unrecognized bucket, so after decode, an assignment to a field or to a
\* sub-field of a flatten field, and encode, the output carries the assigned value.
C9_AssignedValueEncoded ==
  /\ (Decoded /\ obj.ok) =>
       (DOMAIN obj.val.u) \cap (OwnKeys(schema) \cup InlineKeys(schema)) = {}
  /\ (/\ pc = "serialized"
      /\ assigned # NoAssignment
      /\ EmittedTopLevel(assigned.path)
      /\ Target(assigned.path).json # ""
      /\ ~(/\ Target(assigned.path).omitdefault
           /\ PyEq(assigned.val, Target(assigned.path).default))) =>
       /\ Target(assigned.path).json \in DOMAIN out.m
       /\ out.m[Target(assigned.path).json] = Serialize(assigned.val)

\* C10: decoding a document map against Dict[K, V] yields a dict with the
\* document's keys and the document's values decoded against V.
C10_DictDecode ==
  (Decoded /\ IsMap(doc)) =>
    \A f \in AllFields(schema) :
      (/\ TypeKind(f.type) = "Dict"
       /\ DOMAIN doc.m = {f.json}
       /\ IsMap(doc.m[f.json])) =>
        /\ obj.ok
        /\ obj.val.m[f.name] = PyDict(doc.m[f.json].m)

====
